---- MODULE Spec2Model ----
(***************************************************************************)
(* The message service of template-react-node.  The repository holds three *)
(* servers for the same HTTP contract:                                     *)
(*   "memory" : src/server/index.js      (messageHistory array)            *)
(*   "prisma" : src/server/src/index.ts  (Message table through Prisma)    *)
(*   "inline" : src/unnamed/part_001     (Prisma, validation in the route) *)
(* One of them is deployed; every request runs its middleware chain        *)
(* express.json -> limiter -> route -> errorHandler as one step.           *)
(***************************************************************************)
EXTENDS Integers, Sequences, FiniteSets, TLC

VARIABLES
    backend,         \* which server is deployed
    now,             \* the clock, in milliseconds
    messageHistory,  \* index.js: the array, newest first
    table,           \* the Message table: a set of rows
    nextId,          \* the table's autoincrement sequence
    storageFault,    \* whether the database failed the last request's query
    hits,            \* limiter: requests counted per client in its window
    resetTime,       \* limiter: when each client's window runs out
    request,         \* the last request
    response,        \* the response to it
    created,         \* history: every message a create returned, in order
    err,             \* the error under the error handler, when it is run alone
    app,             \* App.tsx: the component's state (message, loading, ...)
    inFlight         \* App.tsx: the texts of the sendMessage calls still awaiting

vars == <<backend, now, messageHistory, table, nextId, storageFault, hits, resetTime,
          request, response, created, err, app, inFlight>>

(* ------------------------------ bounds --------------------------------- *)

\* The clock (Date.now(), the database's now()) takes the values 0..MaxTime.
MaxTime == 1

\* MAX_HISTORY is 100 in the source; the model keeps the code and scales the value.
HistoryBound == 2

\* Requests a client may still send, in one window, after it was first denied.
MaxDenied == 1

\* sendMessage calls of the client that may be awaiting their answer at once.
MaxInFlight == 2

\* Messages the client's list holds at most.
MaxSent == 2

(* --------------------------- configuration ----------------------------- *)

Backends == {"memory", "prisma", "inline"}

Clients == {"c1"}

MAX_HISTORY == HistoryBound

\* parseInt(process.env.MAX_MESSAGE_LENGTH || '500'): the configured value.
MAX_MESSAGE_LENGTH == 1

\* parseInt(process.env.RATE_LIMIT_WINDOW_MS || '60000'): the configured value.
RATE_LIMIT_WINDOW_MS == 1

\* parseInt(process.env.RATE_LIMIT_MAX_REQUESTS || '100'): the configured value.
RATE_LIMIT_MAX_REQUESTS == 2

\* Creates the model follows: enough to overflow the history by one.
MaxCreates == MAX_HISTORY + 1

(* ------------------------------- text ---------------------------------- *)

\* A text is the sequence of its characters; " " is whitespace.
Alphabet == {" ", "a"}

MaxTextLen == MAX_MESSAGE_LENGTH + 1

Texts == UNION {[1..n -> Alphabet] : n \in 0..MaxTextLen}

Min(a, b) == IF a < b THEN a ELSE b

Max(a, b) == IF a > b THEN a ELSE b

RECURSIVE TrimStart(_)
TrimStart(s) ==
    IF s # <<>> /\ Head(s) = " " THEN TrimStart(Tail(s)) ELSE s

RECURSIVE TrimEnd(_)
TrimEnd(s) ==
    IF s # <<>> /\ s[Len(s)] = " " THEN TrimEnd(SubSeq(s, 1, Len(s) - 1)) ELSE s

\* String.prototype.trim
Trim(s) == TrimEnd(TrimStart(s))

(* --------------------------- request bodies ---------------------------- *)

\* req.body as the client sent it: text that is no JSON ("malformed"), an
\* object without the field ("missing"), with a number in it ("number"), or
\* with a string in it ("string").
NoText == <<>>

Bodies ==
    {[kind |-> k, message |-> NoText] : k \in {"malformed", "missing", "number"}}
    \cup {[kind |-> "string", message |-> s] : s \in Texts}

NoBody == [kind |-> "missing", message |-> NoText]

(* ------------------------------ validator ------------------------------ *)

Issue(code) == [path |-> "message", code |-> code]

\* The schema without .min(1).
messageSchema_NoMin(body) ==
    IF body.kind # "string" THEN <<Issue("invalid_type")>>
    ELSE IF Len(body.message) > MAX_MESSAGE_LENGTH THEN <<Issue("too_big")>>
    ELSE <<>>

\* The schema without .max(..).
messageSchema_NoMax(body) ==
    IF body.kind # "string" THEN <<Issue("invalid_type")>>
    ELSE IF Len(body.message) < 1 THEN <<Issue("too_small")>>
    ELSE <<>>

\* messageSchema.parse(req.body): the issues of the ZodError it throws, <<>>
\* when it returns.  z.string() fails with invalid_type before the length
\* checks run; min and max are checked on the string as sent.
messageSchema(body) ==
    IF body.kind # "string" THEN <<Issue("invalid_type")>>
    ELSE (IF Len(body.message) < 1 THEN <<Issue("too_small")>> ELSE <<>>)
         \o (IF Len(body.message) > MAX_MESSAGE_LENGTH
             THEN <<Issue("too_big")>> ELSE <<>>)

(* ------------------------------ responses ------------------------------ *)

\* A response: its status and its JSON body.  kind names the body's shape:
\*   "message"    a message              "list"    an array of messages
\*   "deleted"    {message: text}        "error"   {error: text}
\*   "validation" {error: text, details: issues}
\*   "issues"     {error: issues}        "html"    Express's own error page
Reply(status, kind, error, issues, data) ==
    [status |-> status, kind |-> kind, error |-> error,
     issues |-> issues, data |-> data]

NoResponse == Reply(0, "none", "", <<>>, <<>>)

\* res.json(x) without res.status(..): 200.
Json(kind, data) == Reply(200, kind, "", <<>>, data)

\* An error object: zod tells whether it is a ZodError; status 0 and
\* message "" stand for properties the object does not have.
Error(zod, type, errors, status, message) ==
    [zod |-> zod, type |-> type, errors |-> errors, status |-> status,
     message |-> message]

NoError == Error(FALSE, "", <<>>, 0, "")

\* errorHandler(err): a ZodError and {type: 'validation'} give 400 with the
\* details, any other error its own status (500 when it has none) and its
\* own message ('Internal Server Error' when it has none).
errorHandler(e) ==
    IF e.zod \/ e.type = "validation"
    THEN Reply(400, "validation", "Validation Error", e.errors, <<>>)
    ELSE Reply(IF e.status # 0 THEN e.status ELSE 500, "error",
               IF e.message # "" THEN e.message ELSE "Internal Server Error",
               <<>>, <<>>)

\* The error middleware of part_001: the same answer to every error.
errorMiddleware(e) == Reply(500, "error", "Something broke!", <<>>, <<>>)

\* What validateMessage passes to next() when messageSchema.parse throws.
ValidationErr(issues) == Error(FALSE, "validation", issues, 0, "")

\* What express.json() passes to next() for a body that is no JSON.
BodyParseErr ==
    Error(FALSE, "entity.parse.failed", <<>>, 400, "Unexpected token in JSON")

(* ------------------------- client: App.tsx state ----------------------- *)

\* The useState hooks of App as first rendered; error "" is null.
AppInit == [message |-> <<>>, messages |-> <<>>, loading |-> FALSE, error |-> ""]

(* ----------------------------- rate limiter ---------------------------- *)

\* The client's count after this request: a window that has run out (or was
\* never opened) restarts at 1.
LimiterHits(c) == IF now >= resetTime[c] THEN 1 ELSE hits[c] + 1

LimiterReset(c) ==
    IF now >= resetTime[c] THEN now + RATE_LIMIT_WINDOW_MS ELSE resetTime[c]

\* A limiter that lets through one request fewer than max.
Denied_OffByOne(c) == LimiterHits(c) >= RATE_LIMIT_MAX_REQUESTS

\* max requests are let through in a window; the next ones are answered 429.
Denied(c) == LimiterHits(c) > RATE_LIMIT_MAX_REQUESTS

limiter(c) ==
    /\ LimiterHits(c) <= RATE_LIMIT_MAX_REQUESTS + MaxDenied
    /\ hits' = [hits EXCEPT ![c] = LimiterHits(c)]
    /\ resetTime' = [resetTime EXCEPT ![c] = LimiterReset(c)]

TooMany == Reply(429, "error", "Too many requests, please try again later.",
                 <<>>, <<>>)

(* ------------------------------ parseInt ------------------------------- *)

DigitSeq == <<"0", "1", "2", "3", "4", "5", "6", "7", "8", "9">>

Digits == {DigitSeq[i] : i \in 1..Len(DigitSeq)}

DigitVal(ch) == (CHOOSE i \in 1..Len(DigitSeq) : DigitSeq[i] = ch) - 1

NaN == [nan |-> TRUE, value |-> 0]

Num(n) == [nan |-> FALSE, value |-> n]

\* The longest prefix of digits of s, as a number; -1 when s starts with none.
RECURSIVE ParseDigits(_, _)
ParseDigits(s, acc) ==
    IF s # <<>> /\ Head(s) \in Digits
    THEN ParseDigits(Tail(s), 10 * Max(acc, 0) + DigitVal(Head(s)))
    ELSE acc

\* parseInt(s): leading whitespace and one sign are skipped, the digits that
\* follow are read up to the first other character; NaN when there are none
\* (and for undefined, the absent parameter).
parseInt(s) ==
    LET t == TrimStart(s)
        neg == t # <<>> /\ Head(t) = "-"
        u == IF t # <<>> /\ Head(t) \in {"-", "+"} THEN Tail(t) ELSE t
        n == ParseDigits(u, -1)
    IN  IF n < 0 THEN NaN ELSE Num(IF neg THEN 0 - n ELSE n)

NoParam == <<>>

\* req.params.id as clients send it.
IdParams ==
    {<<DigitSeq[i + 1]>> : i \in 0..MaxCreates} \cup {<<"a">>, <<"1", "a">>}

\* req.query.limit as clients send it.
LimitParams == {NoParam, <<"0">>, <<"1">>, <<"1", "0">>, <<"-", "1">>}

Req(c, method, body, param) ==
    [client |-> c, method |-> method, body |-> body, param |-> param]

NoRequest == Req("c1", "none", NoBody, NoParam)

(* --------------------- server/index.js: the array ----------------------- *)

NewMessage(message, timestamp, id) ==
    [id |-> id, received |-> message,
     serverResponse |-> [processed |-> message, at |-> timestamp],
     timestamp |-> timestamp]

Unshift(h, r) == <<r>> \o h

Pop(h) == SubSeq(h, 1, Len(h) - 1)

Shift(h) == SubSeq(h, 2, Len(h))

\* The insert without the length check.
AddToHistory_NoTruncate(h, r) == Unshift(h, r)

\* The insert with shift() for pop().
AddToHistory_DropsNewest(h, r) ==
    IF Len(Unshift(h, r)) > MAX_HISTORY THEN Shift(Unshift(h, r)) ELSE Unshift(h, r)

\* messageHistory.unshift(response); if (length > MAX_HISTORY) pop()
AddToHistory(h, r) ==
    IF Len(Unshift(h, r)) > MAX_HISTORY THEN Pop(Unshift(h, r)) ELSE Unshift(h, r)

\* Array.prototype.slice(0, end): a negative end counts from the array's end.
Slice(h, end) ==
    LET e == IF end < 0 THEN Max(Len(h) + end, 0) ELSE Min(end, Len(h))
    IN  SubSeq(h, 1, e)

\* parseInt(req.query.limit) || 10
DefaultLimit == 10

LimitOf(param) ==
    LET n == parseInt(param)
    IN  IF n.nan \/ n.value = 0 THEN DefaultLimit ELSE n.value

\* POST /message of index.js.  The handler reads the clock twice (new Date(),
\* then Date.now()): the millisecond may turn between the two reads.
PostMessageJs(c, body) ==
    /\ backend = "memory"
    /\ request' = Req(c, "POST", body, NoParam)
    /\ UNCHANGED <<backend, err, app, inFlight, table, nextId, storageFault>>
    /\ IF body.kind = "malformed"
       THEN /\ response' = errorHandler(BodyParseErr)
            /\ UNCHANGED <<now, messageHistory, created, hits, resetTime>>
       ELSE /\ limiter(c)
            /\ IF Denied(c)
               THEN /\ response' = TooMany
                    /\ UNCHANGED <<now, messageHistory, created>>
               ELSE IF messageSchema(body) # <<>>
               THEN /\ response' = errorHandler(ValidationErr(messageSchema(body)))
                    /\ UNCHANGED <<now, messageHistory, created>>
               ELSE \E turn \in 0..1 :
                    LET r == NewMessage(body.message, now, now + turn)
                    IN  /\ Len(created) < MaxCreates
                        /\ now + turn <= MaxTime
                        /\ now' = now + turn
                        /\ messageHistory' = AddToHistory(messageHistory, r)
                        /\ created' = Append(created, r)
                        /\ response' = Json("message", <<r>>)

\* GET /messages of index.js.
GetMessagesJs(c, param) ==
    /\ backend = "memory"
    /\ request' = Req(c, "LIST", NoBody, param)
    /\ UNCHANGED <<backend, err, app, inFlight, now, table, nextId, storageFault, messageHistory, created>>
    /\ limiter(c)
    /\ response' = IF Denied(c) THEN TooMany
                   ELSE Json("list", Slice(messageHistory, LimitOf(param)))

\* index.js and part_001 register no route for /message/:id: the request
\* passes the limiter and falls through to Express's own 404.
Unrouted(c, method, param) ==
    /\ backend \in {"memory", "inline"}
    /\ request' = Req(c, method, NoBody, param)
    /\ storageFault' = FALSE
    /\ UNCHANGED <<backend, err, app, inFlight, now, table, nextId, messageHistory, created>>
    /\ limiter(c)
    /\ response' = IF Denied(c) THEN TooMany
                   ELSE Reply(404, "html", "Cannot " \o method, <<>>, <<>>)

(* ------------- server/src/index.ts, part_001: the table ---------------- *)

\* The row prisma.message.create({data: {content}}) inserts.  The Message
\* model's defaults are in prisma/schema.prisma; as the data model has them,
\* the id comes from the table's sequence and createdAt, updatedAt from the
\* clock, in milliseconds.
NewRow(content) ==
    [id |-> nextId, content |-> content, createdAt |-> now, updatedAt |-> now]

\* prisma.message.findUnique({where: {id}}): the rows with that id (none or one).
\* A lookup that matches every row.
FindUnique_Any(id) == table

\* The row with the id, if there is one.
FindUnique(id) == {r \in table : r.id = id}

OrderedDesc(s) == \A i \in 1..(Len(s) - 1) : s[i].createdAt >= s[i + 1].createdAt

\* prisma.message.findMany({orderBy: {createdAt: 'desc'}}): every row once,
\* createdAt descending.  The query names no second key, so rows with equal
\* createdAt come in whatever order the database produces.
FindMany ==
    {s \in [1..Cardinality(table) -> table] :
        /\ \A i, j \in 1..Cardinality(table) : i # j => s[i] # s[j]
        /\ OrderedDesc(s)}

DbError(text) == Reply(500, "error", text, <<>>, <<>>)

\* An insert that leaves its row behind when the query fails.
SaveMessage_KeepsRowOnFailure(body, failText) ==
    \E fault \in BOOLEAN :
        /\ storageFault' = fault
        /\ UNCHANGED <<now, messageHistory>>
        /\ Len(created) < MaxCreates
        /\ table' = table \cup {NewRow(body.message)}
        /\ nextId' = nextId + 1
        /\ IF fault
           THEN /\ response' = DbError(failText)
                /\ UNCHANGED created
           ELSE /\ created' = Append(created, NewRow(body.message))
                /\ response' = Json("message", <<NewRow(body.message)>>)

\* The insert both Prisma servers make once the body is validated: one
\* prisma.message.create, which stores the row and returns it or throws and
\* stores nothing.
SaveMessage(body, failText) ==
    \E fault \in BOOLEAN :
        /\ storageFault' = fault
        /\ UNCHANGED <<now, messageHistory>>
        /\ IF fault
           THEN /\ response' = DbError(failText)
                /\ UNCHANGED <<table, nextId, created>>
           ELSE /\ Len(created) < MaxCreates
                /\ table' = table \cup {NewRow(body.message)}
                /\ nextId' = nextId + 1
                /\ created' = Append(created, NewRow(body.message))
                /\ response' = Json("message", <<NewRow(body.message)>>)

NoQuery ==
    /\ storageFault' = FALSE
    /\ UNCHANGED <<now, messageHistory, table, nextId, created>>

\* POST /message of index.ts: validateMessage, then the handler.
PostMessageTs(c, body) ==
    /\ backend = "prisma"
    /\ request' = Req(c, "POST", body, NoParam)
    /\ UNCHANGED <<backend, err, app, inFlight>>
    /\ IF body.kind = "malformed"
       THEN /\ response' = errorHandler(BodyParseErr)
            /\ NoQuery
            /\ UNCHANGED <<hits, resetTime>>
       ELSE /\ limiter(c)
            /\ IF Denied(c)
               THEN response' = TooMany /\ NoQuery
               ELSE IF messageSchema(body) # <<>>
               THEN /\ response' = errorHandler(ValidationErr(messageSchema(body)))
                    /\ NoQuery
               ELSE SaveMessage(body, "Failed to save message")

\* POST /message of part_001: the schema is parsed inside the route's try;
\* the server's own error middleware answers every error with 500.
PostMessageInline(c, body) ==
    /\ backend = "inline"
    /\ request' = Req(c, "POST", body, NoParam)
    /\ UNCHANGED <<backend, err, app, inFlight>>
    /\ IF body.kind = "malformed"
       THEN /\ response' = errorMiddleware(BodyParseErr)
            /\ NoQuery
            /\ UNCHANGED <<hits, resetTime>>
       ELSE /\ limiter(c)
            /\ IF Denied(c)
               THEN response' = TooMany /\ NoQuery
               ELSE IF messageSchema(body) # <<>>
               THEN /\ response' = Reply(400, "issues", "", messageSchema(body), <<>>)
                    /\ NoQuery
               ELSE SaveMessage(body, "Internal server error")

\* GET /messages of index.ts and of part_001: req.query.limit is not read.
GetMessagesTs(c, param) ==
    /\ backend \in {"prisma", "inline"}
    /\ request' = Req(c, "LIST", NoBody, param)
    /\ UNCHANGED <<backend, err, app, inFlight, now, messageHistory, table, nextId, created>>
    /\ limiter(c)
    /\ IF Denied(c)
       THEN response' = TooMany /\ storageFault' = FALSE
       ELSE \E fault \in BOOLEAN :
            /\ storageFault' = fault
            /\ IF fault
               THEN response' = DbError(IF backend = "prisma"
                                        THEN "Failed to fetch messages"
                                        ELSE "Internal server error")
               ELSE \E rows \in FindMany : response' = Json("list", rows)

\* GET /message/:id of index.ts.  Prisma rejects {id: NaN} before any query.
GetMessageTs(c, param) ==
    /\ backend = "prisma"
    /\ request' = Req(c, "GET", NoBody, param)
    /\ UNCHANGED <<backend, err, app, inFlight, now, messageHistory, table, nextId, created>>
    /\ limiter(c)
    /\ IF Denied(c)
       THEN response' = TooMany /\ storageFault' = FALSE
       ELSE IF parseInt(param).nan
       THEN response' = DbError("Failed to fetch message") /\ storageFault' = FALSE
       ELSE \E fault \in BOOLEAN :
            /\ storageFault' = fault
            /\ IF fault
               THEN response' = DbError("Failed to fetch message")
               ELSE IF FindUnique(parseInt(param).value) = {}
               THEN response' = Reply(404, "error", "Message not found", <<>>, <<>>)
               ELSE \E r \in FindUnique(parseInt(param).value) :
                        response' = Json("message", <<r>>)

\* DELETE /message/:id of index.ts.  prisma.message.delete throws when no row
\* has the id; the handler's catch answers every throw alike.
DeleteMessageTs(c, param) ==
    /\ backend = "prisma"
    /\ request' = Req(c, "DELETE", NoBody, param)
    /\ UNCHANGED <<backend, err, app, inFlight, now, messageHistory, nextId, created>>
    /\ limiter(c)
    /\ IF Denied(c)
       THEN response' = TooMany /\ storageFault' = FALSE /\ UNCHANGED table
       ELSE IF parseInt(param).nan
       THEN /\ response' = DbError("Failed to delete message")
            /\ storageFault' = FALSE
            /\ UNCHANGED table
       ELSE \E fault \in BOOLEAN :
            /\ storageFault' = fault
            /\ IF fault \/ FindUnique(parseInt(param).value) = {}
               THEN /\ response' = DbError("Failed to delete message")
                    /\ UNCHANGED table
               ELSE /\ table' = table \ FindUnique(parseInt(param).value)
                    /\ response' = Reply(200, "deleted",
                                         "Message deleted successfully", <<>>, <<>>)

\* A millisecond passes.
Tick ==
    /\ now < MaxTime
    /\ now' = now + 1
    /\ UNCHANGED <<backend, err, app, inFlight, messageHistory, table, nextId, storageFault, hits,
                   resetTime, request, response, created>>

Init ==
    /\ backend \in Backends
    /\ now = 0
    /\ messageHistory = <<>>
    /\ table = {}
    /\ nextId = 1
    /\ storageFault = FALSE
    /\ hits = [c \in Clients |-> 0]
    /\ resetTime = [c \in Clients |-> 0]
    /\ request = NoRequest
    /\ response = NoResponse
    /\ created = <<>>
    /\ err = NoError
    /\ app = AppInit
    /\ inFlight = <<>>

Next ==
    \/ Tick
    \/ \E c \in Clients, body \in Bodies : PostMessageJs(c, body)
    \/ \E c \in Clients, param \in LimitParams : GetMessagesJs(c, param)
    \/ \E c \in Clients, method \in {"GET", "DELETE"}, param \in IdParams :
           Unrouted(c, method, param)
    \/ \E c \in Clients, body \in Bodies : PostMessageTs(c, body)
    \/ \E c \in Clients, body \in Bodies : PostMessageInline(c, body)
    \/ \E c \in Clients, param \in LimitParams : GetMessagesTs(c, param)
    \/ \E c \in Clients, param \in IdParams : GetMessageTs(c, param)
    \/ \E c \in Clients, param \in IdParams : DeleteMessageTs(c, param)

Spec == Init /\ [][Next]_vars

(* --------------------------- several clients --------------------------- *)

\* Two clients whose requests interleave; the limiter keys its counters by
\* the client's address.
Peers == {"c1", "c2"}

\* Each client posts a text of its own.
TextOf(c) == IF c = "c1" THEN <<"a">> ELSE <<"b">>

PeerBody(c) == [kind |-> "string", message |-> TextOf(c)]

\* The limits asked of index.js; index.ts does not read the parameter.
PeerLimits == {NoParam, <<"1">>}

\* The id the clients ask to delete: that of the first message created.
PeerIds == {<<"1">>}

\* The two servers the claims about interleaved clients name: index.js and
\* index.ts.
PeerBackends == {"memory", "prisma"}

InitPeers ==
    /\ backend \in PeerBackends
    /\ now = 0
    /\ messageHistory = <<>>
    /\ table = {}
    /\ nextId = 1
    /\ storageFault = FALSE
    /\ hits = [c \in Peers |-> 0]
    /\ resetTime = [c \in Peers |-> 0]
    /\ request = NoRequest
    /\ response = NoResponse
    /\ created = <<>>
    /\ err = NoError
    /\ app = AppInit
    /\ inFlight = <<>>

NextPeers ==
    \/ Tick
    \/ \E c \in Peers : PostMessageJs(c, PeerBody(c))
    \/ \E c \in Peers, param \in PeerLimits : GetMessagesJs(c, param)
    \/ \E c \in Peers : PostMessageTs(c, PeerBody(c))
    \/ \E c \in Peers : GetMessagesTs(c, NoParam)
    \/ \E c \in Peers, param \in PeerIds : DeleteMessageTs(c, param)

SpecPeers == InitPeers /\ [][NextPeers]_vars

(* ----------------------- the error handler alone ----------------------- *)

\* Error objects next(err) may carry: a ZodError or a plain object, with or
\* without a type, a status and a message of its own.
Errors ==
    {Error(zod, type, errors, status, message) :
        zod \in BOOLEAN,
        type \in {"", "validation", "entity.parse.failed"},
        errors \in {<<>>, <<Issue("too_small")>>},
        status \in {0, 400, 503},
        message \in {"", "connect ECONNREFUSED 10.0.0.5:5432"}}

InitErrors ==
    /\ backend \in Backends
    /\ now = 0
    /\ messageHistory = <<>>
    /\ table = {}
    /\ nextId = 1
    /\ storageFault = FALSE
    /\ hits = [c \in Clients |-> 0]
    /\ resetTime = [c \in Clients |-> 0]
    /\ request = NoRequest
    /\ response = NoResponse
    /\ created = <<>>
    /\ err \in Errors
    /\ app = AppInit
    /\ inFlight = <<>>

\* Express hands err to the error handler the server registered last:
\* errorHandler on index.js and index.ts, the inline middleware on part_001.
HandleError ==
    /\ response = NoResponse
    /\ response' = IF backend = "inline" THEN errorMiddleware(err)
                   ELSE errorHandler(err)
    /\ UNCHANGED <<backend, err, app, inFlight, now, messageHistory, table, nextId, storageFault,
                   hits, resetTime, request, created>>

NextErrors == HandleError

SpecErrors == InitErrors /\ [][NextErrors]_vars

(* --------------------------- client: App.tsx --------------------------- *)

serverVars == <<backend, now, messageHistory, table, nextId, storageFault, hits,
                resetTime, request, response, created, err>>

RemoveAt(s, i) == SubSeq(s, 1, i - 1) \o SubSeq(s, i + 1, Len(s))

\* sendMessage up to its await: nothing for a blank message; otherwise
\* setLoading(true) and the request leaves with the text of the input.
sendMessage ==
    IF Trim(app.message) = <<>>
    THEN UNCHANGED <<app, inFlight>>
    ELSE /\ Len(inFlight) < MaxInFlight
         /\ Len(app.messages) + Len(inFlight) < MaxSent
         /\ app' = [app EXCEPT !.loading = TRUE]
         /\ inFlight' = Append(inFlight, app.message)

\* Input onChange: the user edits the text.
onChange(text) ==
    /\ app' = [app EXCEPT !.message = text]
    /\ UNCHANGED <<inFlight, serverVars>>

\* Button onClick; the button is disabled while loading.
onClick ==
    /\ ~app.loading
    /\ sendMessage
    /\ UNCHANGED serverVars

\* Input onKeyDown with the Enter key.
onKeyDown ==
    /\ sendMessage
    /\ UNCHANGED serverVars

\* api.sendMessage resolves for the i-th awaiting call: the try block runs
\* on, then finally.
Resolved(i) ==
    /\ app' = [app EXCEPT !.messages = <<inFlight[i]>> \o @,
                          !.message = <<>>,
                          !.error = "",
                          !.loading = FALSE]
    /\ inFlight' = RemoveAt(inFlight, i)
    /\ UNCHANGED serverVars

\* api.sendMessage rejects for the i-th awaiting call: catch, then finally.
Rejected(i) ==
    /\ app' = [app EXCEPT !.error = "Failed to send message",
                          !.loading = FALSE]
    /\ inFlight' = RemoveAt(inFlight, i)
    /\ UNCHANGED serverVars

InitClient ==
    /\ backend = "memory"
    /\ now = 0
    /\ messageHistory = <<>>
    /\ table = {}
    /\ nextId = 1
    /\ storageFault = FALSE
    /\ hits = [c \in Clients |-> 0]
    /\ resetTime = [c \in Clients |-> 0]
    /\ request = NoRequest
    /\ response = NoResponse
    /\ created = <<>>
    /\ err = NoError
    /\ app = AppInit
    /\ inFlight = <<>>

NextClient ==
    \/ \E text \in Texts : onChange(text)
    \/ onClick
    \/ onKeyDown
    \/ \E i \in 1..Len(inFlight) : Resolved(i)
    \/ \E i \in 1..Len(inFlight) : Rejected(i)

SpecClient == InitClient /\ [][NextClient]_vars

(* ------------------------------ properties ----------------------------- *)

Reverse(s) == [i \in 1..Len(s) |-> s[Len(s) + 1 - i]]

LastN(s, n) == SubSeq(s, Len(s) - Min(n, Len(s)) + 1, Len(s))

\* Whether a is b with some of its elements left out.
RECURSIVE IsSubSeq(_, _)
IsSubSeq(a, b) ==
    IF a = <<>> THEN TRUE
    ELSE IF b = <<>> THEN FALSE
    ELSE IF Head(a) = Head(b) THEN IsSubSeq(Tail(a), Tail(b))
    ELSE IsSubSeq(a, Tail(b))

\* The decimal text of a number n >= 0, as it stands in a path.
RECURSIVE ToText(_)
ToText(n) ==
    IF n < 10 THEN <<DigitSeq[n + 1]>>
    ELSE ToText(n \div 10) \o <<DigitSeq[(n % 10) + 1]>>

StoredCount ==
    IF backend = "memory" THEN Len(messageHistory) ELSE Cardinality(table)

CreatedAt(m) == IF backend = "memory" THEN m.timestamp ELSE m.createdAt

ValidLength(text) == Len(text) >= 1 /\ Len(text) <= MAX_MESSAGE_LENGTH

\* A step in which a request went through the limiter.
Handled == <<hits, resetTime>>' # <<hits, resetTime>>

\* C1: no two messages that create ever returned carry the same id (so no id
\* is used again, whether or not its message is still stored).
C1_IdsNeverRepeat ==
    \A i, j \in 1..Len(created) : i # j => created[i].id # created[j].id

\* C2: the store that enforces MAX_HISTORY (the array of index.js) never
\* holds more than MAX_HISTORY messages.
C2_HistoryBounded == Len(messageHistory) <= MAX_HISTORY

C2_Witness == Len(created) > MAX_HISTORY /\ Len(messageHistory) = MAX_HISTORY

C4_ListNewestFirst ==
    (request.method = "LIST" /\ response.kind = "list") =>
        /\ IsSubSeq(response.data, Reverse(created))
        /\ (request.param = <<"1", "0">> /\ StoredCount = Len(created))
               => response.data = Reverse(created)

NewestFirst(s) ==
    \A i, j \in 1..Len(s) :
        i < j => \/ CreatedAt(s[i]) > CreatedAt(s[j])
                 \/ CreatedAt(s[i]) = CreatedAt(s[j]) /\ s[i].id >= s[j].id

\* C5: the history, and every list returned, is sorted by createdAt
\* descending, messages with equal createdAt by id descending.
C5_HistorySorted ==
    /\ NewestFirst(messageHistory)
    /\ response.kind = "list" => NewestFirst(response.data)

\* C6: every stored message has a content of length 1..MAX_MESSAGE_LENGTH,
\* whatever bodies were posted.
C6_StoredContentValid ==
    /\ \A i \in 1..Len(messageHistory) : ValidLength(messageHistory[i].received)
    /\ \A r \in table : ValidLength(r.content)

C6_Witness ==
    /\ StoredCount > 0
    /\ request.method = "POST"
    /\ request.body.kind = "number"
    /\ response.status = 400

\* C7: a create whose content is empty or longer than MAX_MESSAGE_LENGTH
\* leaves the stored messages as they were and is answered 400 with the
\* violated constraints (429 when, and only when, the client is over budget).
C7_InvalidCreateRejected ==
    [][(/\ Handled
        /\ request'.method = "POST"
        /\ request'.body.kind = "string"
        /\ ~ValidLength(request'.body.message))
       => /\ UNCHANGED <<messageHistory, table, nextId, created>>
          /\ response'.status = (IF Denied(request'.client) THEN 429 ELSE 400)
          /\ response'.status = 400 => response'.issues # <<>>]_vars

C7_Witness ==
    /\ StoredCount > 0
    /\ request.method = "POST"
    /\ request.body.kind = "string"
    /\ Len(request.body.message) > MAX_MESSAGE_LENGTH
    /\ response.status = 400

\* C8: a body is accepted only if its message is text whose trimmed length
\* is 1..MAX_MESSAGE_LENGTH; a message of whitespace alone is rejected.
C8_AcceptsOnlyTrimmedValid ==
    (request.method = "POST" /\ response.kind = "message") =>
        /\ request.body.kind = "string"
        /\ ValidLength(Trim(request.body.message))

\* C9: a delete of an id that no stored message has is answered 404.
C9_DeleteMissingIs404 ==
    [][(/\ backend = "prisma"
        /\ Handled
        /\ request'.method = "DELETE"
        /\ ~Denied(request'.client)
        /\ ~storageFault'
        /\ \A r \in table : ToText(r.id) # request'.param)
       => response'.status = 404]_vars

\* C10: get by id answers 200 with the message that has the id of the path
\* when there is one and 404 when there is none, for every text in the path.
C10_GetByIdExact ==
    (/\ backend = "prisma"
     /\ request.method = "GET"
     /\ ~storageFault
     /\ response.status # 429)
    => IF \E r \in table : ToText(r.id) = request.param
       THEN /\ response.status = 200
            /\ \E r \in table : ToText(r.id) = request.param /\ response.data = <<r>>
       ELSE response.status = 404

Range(s) == {s[i] : i \in 1..Len(s)}

Stored == IF backend = "memory" THEN Range(messageHistory) ELSE table

\* Whether the list s is the n most recent stored messages (all of them when
\* fewer than n are stored): the head of the history, which index.js keeps
\* newest first; or, of the table, n rows none of which is older than a row
\* left out.
MostRecent(s, n) ==
    IF backend = "memory"
    THEN s = SubSeq(messageHistory, 1, Min(n, StoredCount))
    ELSE /\ Len(s) = Min(n, StoredCount)
         /\ Cardinality(Range(s)) = Len(s)
         /\ Range(s) \subseteq Stored
         /\ \A m \in Range(s), r \in Stored \ Range(s) :
                CreatedAt(m) >= CreatedAt(r)

\* The answer to the latest request is a list of messages.
Listed == request.method = "LIST" /\ response.kind = "list"

\* C11: for a positive limit, list returns exactly min(limit, stored count)
\* messages, the most recent ones; a limit above the stored count returns
\* all stored messages.
C11_PositiveLimit ==
    (Listed /\ ~parseInt(request.param).nan /\ parseInt(request.param).value > 0)
    => MostRecent(response.data, parseInt(request.param).value)

\* C12: for a limit that is zero, negative or absent, list returns the 10
\* most recent messages, or all of them when fewer than 10 are stored.
C12_DefaultLimit ==
    (Listed /\ (parseInt(request.param).nan \/ parseInt(request.param).value <= 0))
    => MostRecent(response.data, 10)

\* C13: of the requests a client sends within one window the first max are
\* let through and every later one is answered 429, whatever the other
\* clients send; the first request after the window has run out opens a new
\* window and is let through again.
C13_MaxPerWindow ==
    [][Handled =>
        LET c == request'.client
        IN  /\ \A d \in DOMAIN hits \ {c} :
                   hits'[d] = hits[d] /\ resetTime'[d] = resetTime[d]
            /\ IF now < resetTime[c]
               THEN /\ hits'[c] = hits[c] + 1
                    /\ resetTime'[c] = resetTime[c]
                    /\ response'.status = 429 <=> hits[c] >= RATE_LIMIT_MAX_REQUESTS
               ELSE /\ hits'[c] = 1
                    /\ resetTime'[c] = now + RATE_LIMIT_WINDOW_MS
                    /\ response'.status # 429]_vars

\* The third create of c1 in a window is denied while c2, in the same
\* window, is within its budget.
C13_Witness ==
    /\ request = Req("c1", "POST", PeerBody("c1"), NoParam)
    /\ response.status = 429
    /\ hits["c1"] = RATE_LIMIT_MAX_REQUESTS + 1
    /\ hits["c2"] = 1
    /\ now < resetTime["c2"]
    /\ Len(created) = 3

\* C14: every request is counted by the limiter before its body is looked
\* at, and a request of a client over its budget is answered 429 and leaves
\* the store alone, whether the body is valid, invalid or no JSON at all.
C14_LimiterFirst ==
    [][(Handled \/ request' # request) =>
        LET c == request'.client
        IN  /\ hits'[c] = LimiterHits(c)
            /\ Denied(c) =>
                   /\ response'.status = 429
                   /\ UNCHANGED <<messageHistory, table, nextId, created>>]_vars

\* A step that answers a POST /message.
Posted == request'.method = "POST" /\ (Handled \/ request' # request)

Content(m) == IF backend = "memory" THEN m.received ELSE m.content

\* The messages the creates of client c returned, as positions of created.
CreatedBy(c) == {i \in 1..Len(created) : Content(created[i]) = TextOf(c)}

\* C16 as stated: every list answered to a client holds every message that
\* the client's earlier creates returned.
C16_ListHasOwnCreates ==
    Listed => \A i \in CreatedBy(request.client) :
                  created[i] \in Range(response.data)

\* C16, amended: a list answered to a client holds each message the client's
\* earlier creates returned that has not been deleted since and that fewer
\* than min(limit, MAX_HISTORY) later creates (of any client) followed, where
\* the store has a limit or a MAX_HISTORY.
C16_ListHasOwnRetained ==
    Listed => \A i \in CreatedBy(request.client) :
                  IF backend = "memory"
                  THEN Len(created) - i < Min(LimitOf(request.param), MAX_HISTORY)
                       => created[i] \in Range(response.data)
                  ELSE created[i] \in table
                       => created[i] \in Range(response.data)

\* c1 created a message, c2 created one after it, and the list c1 then asked
\* for holds c1's message.
C16_Witness ==
    /\ Listed
    /\ request.client = "c1"
    /\ Len(created) = 2
    /\ Content(created[1]) = TextOf("c1")
    /\ Content(created[2]) = TextOf("c2")
    /\ created[1] \in Range(response.data)

\* C17: whatever the interleaving of the clients' requests, a list shows the
\* store as whole creates left it: every message in it is one a create
\* returned, with all its fields, and on index.js the list is a prefix of
\* the last MAX_HISTORY messages created, newest first, so it never holds
\* more than MAX_HISTORY messages nor a message whose eviction was due.
C17_ListSeesWholeCreates ==
    Listed =>
        /\ Range(response.data) \subseteq Range(created)
        /\ backend = "memory" =>
               /\ Len(response.data) <= MAX_HISTORY
               /\ response.data =
                      SubSeq(Reverse(LastN(created, MAX_HISTORY)), 1, Len(response.data))

\* A list asked for when the creates of both clients had overflowed the
\* history of index.js shows exactly MAX_HISTORY messages.
C17_Witness ==
    /\ Listed
    /\ backend = "memory"
    /\ Len(created) = MAX_HISTORY + 1
    /\ CreatedBy("c1") # {}
    /\ CreatedBy("c2") # {}
    /\ Len(response.data) = MAX_HISTORY

\* An error that is no validation error: an internal fault.
InternalFault(e) == ~e.zod /\ e.type # "validation"

\* C18: an internal fault that reaches the error handler is answered 500
\* with a generic body, which never repeats the error's own message or
\* status.
C18_GenericInternalError ==
    (response # NoResponse /\ InternalFault(err))
    => /\ response.status = 500
       /\ response.kind = "error"
       /\ response.error \in {"Internal Server Error", "Something broke!"}

\* C19: a POST /message whose body fails validation (and that the limiter let
\* through) is answered 400 with a body {error, details}, details being the
\* list of the violated constraints; never with another status.
C19_ValidationIs400 ==
    (/\ request.method = "POST"
     /\ request.body.kind # "malformed"
     /\ messageSchema(request.body) # <<>>
     /\ response.status # 429)
    => /\ response.status = 400
       /\ response.kind = "validation"
       /\ response.error # ""
       /\ response.issues = messageSchema(request.body)

\* The step answered a create with the message r.
Created(r) ==
    /\ request'.method = "POST"
    /\ response'.status = 200
    /\ response'.data = <<r>>

\* C20: the store changes only by a create, which adds the message it
\* returns (and, on index.js, may drop the oldest one), or by a delete, which
\* removes the message with the id of its path and no other; list and get
\* change nothing.  Stored messages are never altered: all that enters the
\* store is the new message of a create.
C20_StoreChangesOnlyByCreateDelete ==
    [][/\ request'.method \in {"LIST", "GET"} => UNCHANGED <<messageHistory, table>>
       /\ messageHistory' # messageHistory =>
              /\ Created(Head(messageHistory'))
              /\ Tail(messageHistory') \in {messageHistory, Pop(messageHistory)}
       /\ \A r \in table' \ table : Created(r) /\ table' = table \cup {r}
       /\ \A r \in table \ table' :
              /\ request'.method = "DELETE"
              /\ response'.status = 200
              /\ parseInt(request'.param) = Num(r.id)
              /\ table' = table \ {r}]_vars

\* A delete removed one of two stored messages and left the other.
C20_Witness ==
    /\ request.method = "DELETE"
    /\ response.status = 200
    /\ Len(created) = 2
    /\ Cardinality(table) = 1
    /\ table \subseteq Range(created)

\* C21: the client's loading flag is true exactly while a send is awaiting
\* its answer: true whenever some sendMessage call has not completed, false
\* once every started one has.
C21_LoadingIffInFlight == app.loading <=> inFlight # <<>>

====
